---- MODULE Spec2Model ----
(***************************************************************************)
(* Model of the Creator frame-fixture setup calculator (Calculator.js).    *)
(*                                                                         *)
(* The form is a react-hook-form (v6 API: register / watch / errors /      *)
(* trigger / setValue) with mode "all" and a yup resolver.  The state is   *)
(* the text of every input, the isac checkbox, the per-field error flags   *)
(* kept by the form library, the primary-dimensions mode, the two          *)
(* re-validation effects that may be pending after a render, and what the  *)
(* five <Result> components currently show.                                *)
(*                                                                         *)
(* Numbers are fixed point.  A length or an angle typed by the user is an  *)
(* integer number of hundredths (Unit); a formula result before round2 is  *)
(* an integer number of 1/(Unit*TrigScale); sines and cosines are taken    *)
(* from a table of whole degrees scaled by TrigScale and interpolated      *)
(* linearly in between, so formula values are exact at 90, 30/150 (sine)   *)
(* and 60/120 (cosine) degrees and within about a hundredth elsewhere.     *)
(* A JavaScript value is a record [kind, num]; NaN, undefined, null and    *)
(* the empty string are kinds of their own.                                *)
(***************************************************************************)
EXTENDS Integers, Sequences, FiniteSets, TLC

----------------------------------------------------------------------------
(* Constants of the program *)

PDM_STACK_REACH == "PDM_STACK_REACH"
PDM_FRONT_CENTER == "PDM_FRONT_CENTER"
PDM_ETT_TAIWANESE == "PDM_ETT_TAIWANESE"
PDM_ETT_TT == "PDM_ETT_TT"
Modes == {PDM_STACK_REACH, PDM_FRONT_CENTER, PDM_ETT_TAIWANESE, PDM_ETT_TT}

MIN_ST_HT_ANGLE == -10
MAX_ST_HT_ANGLE == 10
MIN_HTX == 80
MAX_HTX == 700
MIN_HTY == 0
MAX_HTY == 400
MIN_HT_LENGTH_LARGEST == 60
HT_CONE_RANGE == 20
MIN_DAX == 50
MAX_DAX == 600
MIN_DAY == 0
MAX_DAY == 250
MAX_HTY_TOP_LARGEST == MAX_HTY + MIN_HT_LENGTH_LARGEST
MAX_HTY_TOP_SMALLEST == MAX_HTY + MIN_HT_LENGTH_LARGEST - HT_CONE_RANGE

\* round2 keeps two decimals: every typed or shown number is a count of 1/Unit
Unit == 100
\* scale of the sine table, and of a formula result before round2
TrigScale == 10000

----------------------------------------------------------------------------
(* JavaScript values *)

Undefined == [kind |-> "undefined", num |-> 0]
Null == [kind |-> "null", num |-> 0]
NaN == [kind |-> "nan", num |-> 0]
EmptyStr == [kind |-> "empty", num |-> 0]
\* a text of white space only, such as " "
BlankStr == [kind |-> "blank", num |-> 0]
\* a text that is not a number, such as "abc"
JunkStr == [kind |-> "junk", num |-> 0]
\* the decimal text of n/Unit
Txt(n) == [kind |-> "text", num |-> n]
\* the decimal text of n/(Unit*TrigScale): a text with up to six decimals
TxtFine(n) == [kind |-> "fine", num |-> n]
Num(n) == [kind |-> "num", num |-> n]
Bool(b) == [kind |-> "bool", num |-> IF b THEN 1 ELSE 0]

IsNum(x) == x.kind = "num"
\* JavaScript truthiness of the values a field can hold ("0" is a non-empty string)
Truthy(x) ==
    CASE x.kind \in {"undefined", "null", "nan", "empty"} -> FALSE
      [] x.kind = "bool" -> x.num = 1
      [] x.kind = "num" -> x.num # 0
      [] OTHER -> TRUE

parseFloat(x) ==
    CASE x.kind = "text" -> Num(x.num)
      [] x.kind = "num" -> x
      [] OTHER -> NaN

\* parseFloat of a text, as a count of 1/(Unit*TrigScale)
parseFloatRaw(x) ==
    CASE x.kind = "fine" -> Num(x.num)
      [] x.kind \in {"text", "num"} -> Num(x.num * TrigScale)
      [] OTHER -> NaN

Abs(n) == IF n < 0 THEN -n ELSE n

----------------------------------------------------------------------------
(* Math.sin / Math.cos of degToRad(x), x in hundredths of a degree *)

SinTable ==
    << 0, 175, 349, 523, 698, 872, 1045, 1219, 1392, 1564, 1736, 1908, 2079,
       2250, 2419, 2588, 2756, 2924, 3090, 3256, 3420, 3584, 3746, 3907,
       4067, 4226, 4384, 4540, 4695, 4848, 5000, 5150, 5299, 5446, 5592,
       5736, 5878, 6018, 6157, 6293, 6428, 6561, 6691, 6820, 6947, 7071,
       7193, 7314, 7431, 7547, 7660, 7771, 7880, 7986, 8090, 8192, 8290,
       8387, 8480, 8572, 8660, 8746, 8829, 8910, 8988, 9063, 9135, 9205,
       9272, 9336, 9397, 9455, 9511, 9563, 9613, 9659, 9703, 9744, 9781,
       9816, 9848, 9877, 9903, 9925, 9945, 9962, 9976, 9986, 9994, 9998,
       10000 >>

\* first quadrant, 0 <= c <= 90 * Unit
SinQuadrant(c) ==
    LET d == c \div Unit
        fr == c % Unit
    IN  IF fr = 0 THEN SinTable[d + 1]
        ELSE SinTable[d + 1] + ((SinTable[d + 2] - SinTable[d + 1]) * fr + Unit \div 2) \div Unit

SinDeg(c) ==
    LET m == c % (360 * Unit)
    IN  IF m <= 90 * Unit THEN SinQuadrant(m)
        ELSE IF m <= 180 * Unit THEN SinQuadrant(180 * Unit - m)
        ELSE IF m <= 270 * Unit THEN -SinQuadrant(m - 180 * Unit)
        ELSE -SinQuadrant(360 * Unit - m)

CosDeg(c) == SinDeg(c + 90 * Unit)

----------------------------------------------------------------------------
(* Math.sqrt(Math.pow(c, 2) - Math.pow(b, 2)) on hundredths.  The squares  *)
(* do not fit the checker's integers, so they are compared in two limbs.   *)

SqHi(x) ==
    LET a == Abs(x)
        h == a \div TrigScale
        l == a % TrigScale
    IN  h * h * TrigScale + 2 * h * l + (l * l) \div TrigScale

SqLo(x) == LET l == Abs(x) % TrigScale IN (l * l) % TrigScale

\* r*r + b*b <= c*c
SumSqLeq(r, b, c) ==
    LET lo == SqLo(r) + SqLo(b)
        hi == SqHi(r) + SqHi(b) + lo \div TrigScale
    IN  \/ hi < SqHi(c)
        \/ hi = SqHi(c) /\ lo % TrigScale <= SqLo(c)

RECURSIVE SqrtSearch(_, _, _, _)
\* the largest r in lo..hi with r*r + b*b <= c*c
SqrtSearch(lo, hi, b, c) ==
    IF lo >= hi THEN lo
    ELSE LET mid == (lo + hi + 1) \div 2
         IN  IF SumSqLeq(mid, b, c) THEN SqrtSearch(mid, hi, b, c)
             ELSE SqrtSearch(lo, mid - 1, b, c)

\* sqrt(c^2 - b^2) to the nearest hundredth; NaN for a negative radicand
SqrtDiff(c, b) ==
    IF Abs(b) > Abs(c) THEN NaN
    ELSE Num((SqrtSearch(2 * (Abs(c) - Abs(b)), 2 * Abs(c), 2 * b, 2 * c) + 1) \div 2)

\* a / b to the nearest integer, b # 0
RoundDiv(a, b) ==
    IF b > 0 THEN (2 * a + b) \div (2 * b) ELSE (2 * (-a) - b) \div (2 * (-b))

----------------------------------------------------------------------------
(* The formulas.  Arguments are JavaScript values; a result is the raw     *)
(* (unrounded) number in 1/(Unit*TrigScale), or NaN.                       *)

AllNum(xs) == \A i \in 1..Len(xs) : IsNum(xs[i])

\* sqrt(s^2+r^2) * sin(degToRad(180-hta) - atan(s/r)), expanded with
\* cos(atan(s/r)) = |r|/sqrt(s^2+r^2) and sin(atan(s/r)) = sgn(r)*s/sqrt(s^2+r^2)
\* htaStackReachToHtx with atan(reach / stack)
htaStackReachToHtx_swapped(hta, stack, reach) ==
    IF ~AllNum(<<hta, stack, reach>>) THEN NaN
    ELSE IF stack.num = 0 /\ reach.num = 0 THEN NaN
    ELSE LET sgn == IF stack.num < 0 THEN -1 ELSE 1
         IN  Num(sgn * (stack.num * SinDeg(hta.num) + reach.num * CosDeg(hta.num)))

htaStackReachToHtx(hta, stack, reach) ==
    IF ~AllNum(<<hta, stack, reach>>) THEN NaN
    ELSE IF stack.num = 0 /\ reach.num = 0 THEN NaN
    ELSE LET sgn == IF reach.num < 0 THEN -1 ELSE 1
         IN  Num(sgn * (reach.num * SinDeg(hta.num) + stack.num * CosDeg(hta.num)))

htaHtlStackReachToHty(hta, htlength, stack, reach) ==
    IF ~AllNum(<<hta, htlength, stack, reach>>) THEN NaN
    ELSE IF stack.num = 0 /\ reach.num = 0 THEN NaN
    ELSE LET sgn == IF reach.num < 0 THEN -1 ELSE 1
         IN  Num(sgn * (stack.num * SinDeg(hta.num) - reach.num * CosDeg(hta.num))
                 - htlength.num * TrigScale)

\* correctForkLength that projects whatever the flag says
correctForkLength_always(forklength, forkoffset, isac) ==
    IF AllNum(<<forklength, forkoffset>>)
    THEN SqrtDiff(forklength.num, forkoffset.num)
    ELSE NaN

correctForkLength(forklength, forkoffset, isac) ==
    IF Truthy(isac)
    THEN IF AllNum(<<forklength, forkoffset>>)
         THEN SqrtDiff(forklength.num, forkoffset.num)
         ELSE NaN
    ELSE forklength

round2(raw) ==
    IF IsNum(raw) THEN Num((raw.num + TrigScale \div 2) \div TrigScale) ELSE NaN

----------------------------------------------------------------------------
(* The registered inputs and the yup schema *)

BaseFields == {"hta", "sta", "htlength", "cslength", "bbdrop"}
NumFields ==
    BaseFields \cup {"stack", "reach", "frontcenter", "etttaiwanese", "etttt",
                     "htttoffset", "forklength", "forkoffset", "lhsh"}
AllFields == NumFields \cup {"isac"}

emptyStringToNull(value, originalValue) ==
    IF originalValue.kind \in {"empty", "blank"} THEN Null ELSE value

\* yup.number() cast of an input's text, followed by .transform(emptyStringToNull)
NumberCast(x) ==
    emptyStringToNull(
        CASE x.kind = "text" -> Num(x.num)
          [] x.kind \in {"empty", "blank", "junk"} -> NaN
          [] OTHER -> x,
        x)

IsNullish(x) == x.kind \in {"null", "undefined"}

\* the test added by yup.addMethod(yup.number, "absMax", ...)
absMax(value, other) ==
    \/ IsNullish(value)
    \/ IsNullish(other)
    \/ IsNum(value) /\ IsNum(other) /\ Abs(value.num) <= other.num

moreThan(value, min) == IsNullish(value) \/ (IsNum(value) /\ value.num > min * Unit)
\* lessThan that lets every number pass
lessThan_noTest(value, max) == IsNullish(value) \/ IsNum(value)

lessThan(value, max) == IsNullish(value) \/ (IsNum(value) /\ value.num < max * Unit)
atLeast(value, min) == IsNullish(value) \/ (IsNum(value) /\ value.num >= min * Unit)
typeOk(value) == value.kind # "nan"

\* basicInputSchema: TRUE when field f of the form values vals passes its tests
SchemaValid(f, vals) ==
    LET v == NumberCast(vals[f])
        ref(g) == NumberCast(vals[g])
    IN  /\ typeOk(v)
        /\ CASE f = "hta" -> ~IsNullish(v) /\ moreThan(v, 0) /\ lessThan(v, 180)
             [] f = "sta" -> moreThan(v, 0) /\ lessThan(v, 180)
             [] f = "htlength" -> atLeast(v, MIN_HT_LENGTH_LARGEST)
             [] f = "bbdrop" -> absMax(v, ref("cslength")) /\ absMax(v, ref("frontcenter"))
             [] f = "forkoffset" ->
                    IF Truthy(vals["isac"]) THEN absMax(v, ref("forklength")) ELSE TRUE
             [] f = "lhsh" -> atLeast(v, 0)
             [] OTHER -> moreThan(v, 0)

----------------------------------------------------------------------------
(* <Result>: waiting list, calculate, round2, validate *)

Outputs == {"staHta", "htx", "hty", "dax", "day"}

\* valuesMap(...fields) over what watch returns (w)
valuesMap(w, fields) ==
    [f \in fields |->
        IF Truthy(w[f]) /\ f # "isac" THEN parseFloat(w[f]) ELSE w[f]]

\* a destructured property of the values object
Prop(v, f) == IF f \in DOMAIN v THEN v[f] ELSE Undefined

\* WaitingOn that forgets the fields flagged by validation
WaitingOn_ignoreErrors(values, errs) ==
    {k \in DOMAIN values \ {"isac"} :
        values[k].kind \in {"undefined", "null", "empty"}}

\* WaitingOn that takes every falsy value for a missing one
WaitingOn_falsy(values, errs) ==
    {k \in DOMAIN values \ {"isac"} : ~Truthy(values[k]) \/ errs[k]}

WaitingOn(values, errs) ==
    {k \in DOMAIN values \ {"isac"} :
        \/ values[k].kind \in {"undefined", "null", "empty"}
        \/ errs[k]}

\* JavaScript < and > on numbers: false when either side is NaN
Lt(v, bound) == IsNum(v) /\ v.num < bound
Gt(v, bound) == IsNum(v) /\ v.num > bound

\* ValidateRange with the upper limit exclusive
ValidateRange_exclusiveMax(v, min, max) ==
    IF Lt(v, min * Unit) \/ ~Lt(v, max * Unit) THEN "true" ELSE ""

\* validate of ST-HT angle, HTX, DAX and DAY
ValidateRange(v, min, max) ==
    IF Lt(v, min * Unit) \/ Gt(v, max * Unit) THEN "true" ELSE ""

\* ValidateHty with the head-tube-top limits exclusive
ValidateHty_exclusiveTop(v, htlength) ==
    IF Lt(v, MIN_HTY * Unit) \/ Gt(v, MAX_HTY * Unit) THEN "true"
    ELSE LET hl == parseFloatRaw(htlength)
             htytop == IF IsNum(v) /\ IsNum(hl)
                       THEN Num(v.num * TrigScale + hl.num) ELSE NaN
         IN  IF ~Lt(htytop, MAX_HTY_TOP_SMALLEST * Unit * TrigScale) /\ IsNum(htytop)
             THEN IF ~Lt(htytop, MAX_HTY_TOP_LARGEST * Unit * TrigScale) THEN "definite"
                  ELSE "possible"
             ELSE ""

\* validate of HTY; v is the rounded result, htlength what watch("htlength")
\* returned; htytop = v + parseFloat(htlength) keeps the decimals of htlength
ValidateHty(v, htlength) ==
    IF Lt(v, MIN_HTY * Unit) \/ Gt(v, MAX_HTY * Unit) THEN "true"
    ELSE LET hl == parseFloatRaw(htlength)
             htytop == IF IsNum(v) /\ IsNum(hl)
                       THEN Num(v.num * TrigScale + hl.num) ELSE NaN
         IN  IF Gt(htytop, MAX_HTY_TOP_SMALLEST * Unit * TrigScale)
             THEN IF Gt(htytop, MAX_HTY_TOP_LARGEST * Unit * TrigScale) THEN "definite"
                  ELSE "possible"
             ELSE ""

\* the validate prop of a <Result>: the range closure of ST-HT angle, HTX, DAX
\* and DAY, or HTY's closure over watch("htlength")
RangeCheck(min, max) == [kind |-> "range", min |-> min, max |-> max, htlength |-> Undefined]
HtyCheck(htlength) == [kind |-> "hty", min |-> MIN_HTY, max |-> MAX_HTY, htlength |-> htlength]

\* validate(result): "" (falsy), "true", or one of the two head-tube-top messages
Validate(validate, result) ==
    IF validate.kind = "hty" THEN ValidateHty(result, validate.htlength)
    ELSE ValidateRange(result, validate.min, validate.max)

\* Result whose range verdict is taken from the result before rounding
Result_rawVerdict(errs, values, calculated, validate) ==
    LET waitingOn == WaitingOn(values, errs)
    IN  IF waitingOn # {}
        THEN [status |-> "incomplete", waitingOn |-> waitingOn,
              value |-> Undefined, message |-> ""]
        ELSE LET result == round2(calculated)
                 bad == IF validate.kind = "range"
                        THEN (IF \/ Lt(calculated, validate.min * Unit * TrigScale)
                                 \/ Gt(calculated, validate.max * Unit * TrigScale)
                              THEN "true" ELSE "")
                        ELSE Validate(validate, result)
             IN  [status |-> IF bad = "" THEN "ok"
                             ELSE IF bad = "true" THEN "outOfRange"
                             ELSE "conditionallyOutOfRange",
                  waitingOn |-> {},
                  value |-> result,
                  message |-> IF bad \in {"", "true"} THEN "" ELSE bad]

\* <Result>; calculated stands for calculate(values), which is evaluated only
\* when nothing is awaited
Result(errs, values, calculated, validate) ==
    LET waitingOn == WaitingOn(values, errs)
    IN  IF waitingOn # {}
        THEN [status |-> "incomplete", waitingOn |-> waitingOn,
              value |-> Undefined, message |-> ""]
        ELSE LET result == round2(calculated)
                 bad == Validate(validate, result)
             IN  [status |-> IF bad = "" THEN "ok"
                             ELSE IF bad = "true" THEN "outOfRange"
                             ELSE "conditionallyOutOfRange",
                  waitingOn |-> {},
                  value |-> result,
                  message |-> IF bad \in {"", "true"} THEN "" ELSE bad]

StaHtaFields == {"hta", "sta"}

\* HtxFields whose ETT lists lack lhsh
HtxFields_noLhsh(m) ==
    CASE m = PDM_STACK_REACH -> {"hta", "stack", "reach"}
      [] m = PDM_FRONT_CENTER -> {"hta", "frontcenter", "forkoffset", "bbdrop"}
      [] m = PDM_ETT_TAIWANESE ->
            {"hta", "sta", "htlength", "etttaiwanese", "forklength", "isac",
             "forkoffset", "bbdrop"}
      [] m = PDM_ETT_TT ->
            {"hta", "sta", "htlength", "etttt", "htttoffset", "forklength",
             "isac", "forkoffset", "bbdrop"}
      [] OTHER -> {}

HtxFields(m) ==
    CASE m = PDM_STACK_REACH -> {"hta", "stack", "reach"}
      [] m = PDM_FRONT_CENTER -> {"hta", "frontcenter", "forkoffset", "bbdrop"}
      [] m = PDM_ETT_TAIWANESE ->
            {"hta", "sta", "htlength", "etttaiwanese", "forklength", "isac",
             "forkoffset", "lhsh", "bbdrop"}
      [] m = PDM_ETT_TT ->
            {"hta", "sta", "htlength", "etttt", "htttoffset", "forklength",
             "isac", "forkoffset", "lhsh", "bbdrop"}
      [] OTHER -> {}

\* HtyFields whose Front Center list always holds forkoffset
HtyFields_alwaysForkoffset(m, isac) ==
    CASE m = PDM_STACK_REACH -> {"hta", "htlength", "stack", "reach"}
      [] m = PDM_FRONT_CENTER ->
            {"hta", "frontcenter", "forklength", "isac", "forkoffset", "lhsh", "bbdrop"}
      [] m = PDM_ETT_TAIWANESE ->
            {"hta", "sta", "htlength", "etttaiwanese", "forklength", "isac",
             "forkoffset", "lhsh", "bbdrop"}
      [] m = PDM_ETT_TT ->
            {"hta", "sta", "htlength", "etttt", "htttoffset", "forklength",
             "isac", "forkoffset", "lhsh", "bbdrop"}
      [] OTHER -> {}

\* isac is what watch("isac") returned
HtyFields(m, isac) ==
    CASE m = PDM_STACK_REACH -> {"hta", "htlength", "stack", "reach"}
      [] m = PDM_FRONT_CENTER ->
            {"hta", "frontcenter", "forklength", "isac", "lhsh", "bbdrop"}
            \cup (IF Truthy(isac) THEN {"forkoffset"} ELSE {})
      [] m = PDM_ETT_TAIWANESE ->
            {"hta", "sta", "htlength", "etttaiwanese", "forklength", "isac",
             "forkoffset", "lhsh", "bbdrop"}
      [] m = PDM_ETT_TT ->
            {"hta", "sta", "htlength", "etttt", "htttoffset", "forklength",
             "isac", "forkoffset", "lhsh", "bbdrop"}
      [] OTHER -> {}

\* DaFields that also waits on reach
DaFields_withReach == {"hta", "cslength", "bbdrop", "reach"}

DaFields == {"hta", "cslength", "bbdrop"}

CalcStaHta(v) ==
    IF AllNum(<<Prop(v, "sta"), Prop(v, "hta")>>)
    THEN Num((Prop(v, "sta").num - Prop(v, "hta").num) * TrigScale)
    ELSE NaN

\* EttStack that does not subtract the offset from htlength
EttStack_ignoreOffset(v, off) ==
    LET cfl == correctForkLength(Prop(v, "forklength"), Prop(v, "forkoffset"), Prop(v, "isac"))
        args == <<Prop(v, "hta"), Prop(v, "htlength"), off, cfl, Prop(v, "lhsh"),
                  Prop(v, "forkoffset"), Prop(v, "bbdrop")>>
    IN  IF ~AllNum(args) THEN NaN
        ELSE round2(Num(
                (Prop(v, "htlength").num + cfl.num + Prop(v, "lhsh").num)
                    * SinDeg(Prop(v, "hta").num)
                - Prop(v, "forkoffset").num * CosDeg(Prop(v, "hta").num)
                + Prop(v, "bbdrop").num * TrigScale))

\* the effective stack of the two ETT modes, to the hundredth; off is 0 or htttoffset
EttStack(v, off) ==
    LET cfl == correctForkLength(Prop(v, "forklength"), Prop(v, "forkoffset"), Prop(v, "isac"))
        args == <<Prop(v, "hta"), Prop(v, "htlength"), off, cfl, Prop(v, "lhsh"),
                  Prop(v, "forkoffset"), Prop(v, "bbdrop")>>
    IN  IF ~AllNum(args) THEN NaN
        ELSE round2(Num(
                (Prop(v, "htlength").num - off.num + cfl.num + Prop(v, "lhsh").num)
                    * SinDeg(Prop(v, "hta").num)
                - Prop(v, "forkoffset").num * CosDeg(Prop(v, "hta").num)
                + Prop(v, "bbdrop").num * TrigScale))

\* ett - stack * Math.tan(degToRad(90 - sta)), to the hundredth
EttReach(ett, stack, sta) ==
    IF ~AllNum(<<ett, stack, sta>>) THEN NaN
    ELSE LET tn == SinDeg(90 * Unit - sta.num)
             td == CosDeg(90 * Unit - sta.num)
         IN  IF td = 0 THEN NaN
             ELSE Num(ett.num - RoundDiv(stack.num * tn, td))

\* sqrt(frontcenter^2 - bbdrop^2) of the Front Center formulas
FcBase(v) ==
    IF AllNum(<<Prop(v, "frontcenter"), Prop(v, "bbdrop")>>)
    THEN SqrtDiff(Prop(v, "frontcenter").num, Prop(v, "bbdrop").num)
    ELSE NaN

CalcHtx(m, v) ==
    LET hta == Prop(v, "hta")
    IN  CASE m = PDM_STACK_REACH ->
                htaStackReachToHtx(hta, Prop(v, "stack"), Prop(v, "reach"))
          [] m = PDM_FRONT_CENTER ->
                LET base == FcBase(v)
                IN  IF ~AllNum(<<hta, base, Prop(v, "bbdrop"), Prop(v, "forkoffset")>>)
                    THEN NaN
                    ELSE Num(SinDeg(hta.num) * base.num
                             + Prop(v, "bbdrop").num * CosDeg(hta.num)
                             - Prop(v, "forkoffset").num * TrigScale)
          [] m = PDM_ETT_TAIWANESE ->
                LET stack == EttStack(v, Num(0))
                    reach == EttReach(Prop(v, "etttaiwanese"), stack, Prop(v, "sta"))
                IN  htaStackReachToHtx(hta, stack, reach)
          [] m = PDM_ETT_TT ->
                LET stackToHtTt == EttStack(v, Prop(v, "htttoffset"))
                    reachToHtTt == EttReach(Prop(v, "etttt"), stackToHtTt, Prop(v, "sta"))
                IN  htaStackReachToHtx(hta, stackToHtTt, reachToHtTt)
          [] OTHER -> Undefined

CalcHty(m, v) ==
    LET hta == Prop(v, "hta")
    IN  CASE m = PDM_STACK_REACH ->
                htaHtlStackReachToHty(hta, Prop(v, "htlength"), Prop(v, "stack"),
                                      Prop(v, "reach"))
          [] m = PDM_FRONT_CENTER ->
                LET base == FcBase(v)
                    cfl == correctForkLength(Prop(v, "forklength"),
                                             Prop(v, "forkoffset"), Prop(v, "isac"))
                IN  IF ~AllNum(<<hta, base, cfl, Prop(v, "lhsh"), Prop(v, "bbdrop")>>)
                    THEN NaN
                    ELSE Num((cfl.num + Prop(v, "lhsh").num) * TrigScale
                             - (base.num * CosDeg(hta.num)
                                - Prop(v, "bbdrop").num * SinDeg(hta.num)))
          [] m = PDM_ETT_TAIWANESE ->
                LET stack == EttStack(v, Num(0))
                    reach == EttReach(Prop(v, "etttaiwanese"), stack, Prop(v, "sta"))
                IN  htaHtlStackReachToHty(hta, Prop(v, "htlength"), stack, reach)
          [] m = PDM_ETT_TT ->
                LET stackToHtTt == EttStack(v, Prop(v, "htttoffset"))
                    reachToHtTt == EttReach(Prop(v, "etttt"), stackToHtTt, Prop(v, "sta"))
                    y == htaHtlStackReachToHty(hta, Prop(v, "htlength"),
                                               stackToHtTt, reachToHtTt)
                IN  IF AllNum(<<y, Prop(v, "htttoffset")>>)
                    THEN Num(y.num + Prop(v, "htttoffset").num * TrigScale)
                    ELSE NaN
          [] OTHER -> Undefined

\* cslength * cos(asin(bbdrop / cslength)): the chainstay's projection, signed like cslength
DaBase(v) ==
    LET cs == Prop(v, "cslength")
        bb == Prop(v, "bbdrop")
    IN  IF ~AllNum(<<cs, bb>>) THEN NaN
        ELSE IF cs.num = 0 THEN NaN
        ELSE LET q == SqrtDiff(cs.num, bb.num)
             IN  IF IsNum(q) THEN Num((IF cs.num < 0 THEN -1 ELSE 1) * q.num) ELSE NaN

\* cslength * cos(degToRad(90) - degToRad(hta) + asin(bbdrop / cslength))
CalcDax(v) ==
    LET hta == Prop(v, "hta")
        q == DaBase(v)
    IN  IF ~AllNum(<<hta, q>>) THEN NaN
        ELSE Num(CosDeg(90 * Unit - hta.num) * q.num
                 - SinDeg(90 * Unit - hta.num) * Prop(v, "bbdrop").num)

\* CalcDay that takes the angle from the horizontal instead of the vertical
CalcDay_noQuarterTurn(v) ==
    LET hta == Prop(v, "hta")
        q == DaBase(v)
    IN  IF ~AllNum(<<hta, q>>) THEN NaN
        ELSE Num(SinDeg(hta.num) * q.num + CosDeg(hta.num) * Prop(v, "bbdrop").num)

CalcDay(v) ==
    LET hta == Prop(v, "hta")
        q == DaBase(v)
    IN  IF ~AllNum(<<hta, q>>) THEN NaN
        ELSE Num(SinDeg(90 * Unit - hta.num) * q.num
                 + CosDeg(90 * Unit - hta.num) * Prop(v, "bbdrop").num)

\* the <Result> elements of one render of <Calculator>; m is the pdm state,
\* w what watch returns, e the form library's errors
StaHtaResult(w, e) ==
    LET values == valuesMap(w, StaHtaFields)
    IN  Result(e, values, CalcStaHta(values),
               RangeCheck(MIN_ST_HT_ANGLE, MAX_ST_HT_ANGLE))

HtxResult(m, w, e) ==
    LET values == valuesMap(w, HtxFields(m))
    IN  Result(e, values, CalcHtx(m, values), RangeCheck(MIN_HTX, MAX_HTX))

HtyResult(m, w, e) ==
    LET values == valuesMap(w, HtyFields(m, w["isac"]))
    IN  Result(e, values, CalcHty(m, values), HtyCheck(w["htlength"]))

DaxResult(w, e) ==
    LET values == valuesMap(w, DaFields)
    IN  Result(e, values, CalcDax(values), RangeCheck(MIN_DAX, MAX_DAX))

DayResult(w, e) ==
    LET values == valuesMap(w, DaFields)
    IN  Result(e, values, CalcDay(values), RangeCheck(MIN_DAY, MAX_DAY))

\* what the "Fixture Setup" section shows
Render(m, w, e) ==
    [staHta |-> StaHtaResult(w, e),
     htx |-> HtxResult(m, w, e),
     hty |-> HtyResult(m, w, e),
     dax |-> DaxResult(w, e),
     day |-> DayResult(w, e)]

----------------------------------------------------------------------------
(* The state of <Calculator> *)

VARIABLES
    pdm,             \* useState(PDM_STACK_REACH)
    mounted,         \* the inputs are registered (any render after the first)
    form,            \* the text of every input, and the isac checkbox
    errors,          \* the form library's errors object: which fields are flagged
    pendBbdrop,      \* the effect that calls trigger("bbdrop") is due
    pendForkoffset,  \* the effect that calls trigger("forkoffset") is due
    shown,           \* what the five <Result> elements show
    calc             \* the formula applied last on its own, with its arguments and result

vars == <<pdm, mounted, form, errors, pendBbdrop, pendForkoffset, shown, calc>>

\* no formula has been applied on its own
NoCall == [fn |-> "none", args |-> <<>>, result |-> Undefined]

\* watch(field): undefined until the inputs are registered
Watch(isMounted, f) == [k \in AllFields |-> IF isMounted THEN f[k] ELSE Undefined]

\* <FieldCol forPdm=... notForPdm=...>: the inputs that are not hidden in mode m
Visible(m) ==
    BaseFields \cup
    CASE m = PDM_STACK_REACH -> {"stack", "reach"}
      [] m = PDM_FRONT_CENTER -> {"frontcenter", "forklength", "isac", "forkoffset", "lhsh"}
      [] m = PDM_ETT_TAIWANESE -> {"etttaiwanese", "forklength", "isac", "forkoffset", "lhsh"}
      [] m = PDM_ETT_TT -> {"etttt", "htttoffset", "forklength", "isac", "forkoffset", "lhsh"}

\* pdmDepFields whose Front Center list lacks the fork and headset fields
pdmDepFields_frontCenterAlone(m) ==
    LET forkAndHeadsetFields == {"forklength", "isac", "forkoffset", "lhsh"}
    IN  CASE m = PDM_STACK_REACH -> {"stack", "reach"}
          [] m = PDM_FRONT_CENTER -> {"frontcenter"}
          [] m = PDM_ETT_TAIWANESE -> {"etttaiwanese"} \cup forkAndHeadsetFields
          [] m = PDM_ETT_TT -> {"etttt", "htttoffset"} \cup forkAndHeadsetFields

\* pdmDepFields[value] of setPdmAndClearFields
pdmDepFields(m) ==
    LET forkAndHeadsetFields == {"forklength", "isac", "forkoffset", "lhsh"}
    IN  CASE m = PDM_STACK_REACH -> {"stack", "reach"}
          [] m = PDM_FRONT_CENTER -> {"frontcenter"} \cup forkAndHeadsetFields
          [] m = PDM_ETT_TAIWANESE -> {"etttaiwanese"} \cup forkAndHeadsetFields
          [] m = PDM_ETT_TT -> {"etttt", "htttoffset"} \cup forkAndHeadsetFields

\* the fields setPdmAndClearFields walks over
PdmFields ==
    {"stack", "reach", "frontcenter", "etttaiwanese", "etttt", "htttoffset",
     "forklength", "isac", "forkoffset", "lhsh"}

\* ClearedForm that leaves the isac checkbox as it is
ClearedForm_keepIsac(f, m) ==
    [k \in AllFields |->
        IF k \in PdmFields \ {"isac"} /\ k \notin pdmDepFields(m)
        THEN EmptyStr
        ELSE f[k]]

\* the form after setPdmAndClearFields(m): setValue(field, field === "isac" ? false : "")
ClearedForm(f, m) ==
    [k \in AllFields |->
        IF k \in PdmFields /\ k \notin pdmDepFields(m)
        THEN (IF k = "isac" THEN Bool(FALSE) ELSE EmptyStr)
        ELSE f[k]]

\* number of presets of frame-examples.json
NumExamples == 2

\* getFrameExampleVariables(i): the seven values of preset i, as the inputs hold them
getFrameExampleVariables(i) ==
    [hta |-> Txt(90 * Unit), sta |-> Txt(90 * Unit), htlength |-> Txt(60 * Unit),
     stack |-> Txt(440 * Unit), reach |-> Txt(80 * Unit),
     cslength |-> Txt(420 * Unit),
     bbdrop |-> IF i % 2 = 1 THEN Txt(70 * Unit) ELSE Txt(0)]

ExampleKeys == {"hta", "sta", "htlength", "stack", "reach", "cslength", "bbdrop"}

\* the texts a user types into input k
Typed(k) ==
    {EmptyStr} \cup
    CASE k = "hta" -> {Txt(90 * Unit), Txt(200 * Unit)}
      [] k = "sta" -> {Txt(90 * Unit)}
      [] k = "htlength" -> {Txt(60 * Unit)}
      [] k = "cslength" -> {Txt(420 * Unit), Txt(50 * Unit)}
      [] k = "bbdrop" -> {Txt(0), Txt(70 * Unit)}
      [] k = "stack" -> {Txt(440 * Unit)}
      [] k = "reach" -> {Txt(80 * Unit)}
      [] k = "frontcenter" -> {Txt(250 * Unit), Txt(50 * Unit)}
      [] k = "etttaiwanese" -> {Txt(500 * Unit)}
      [] k = "etttt" -> {Txt(500 * Unit)}
      [] k = "htttoffset" -> {Txt(10 * Unit)}
      [] k = "forklength" -> {Txt(390 * Unit)}
      [] k = "forkoffset" -> {Txt(400 * Unit)}
      [] k = "lhsh" -> {Txt(0)}

NoErrors == [k \in NumFields |-> FALSE]

Init ==
    /\ pdm = PDM_STACK_REACH
    /\ mounted = FALSE
    /\ form = [k \in AllFields |-> IF k = "isac" THEN Bool(FALSE) ELSE EmptyStr]
    /\ errors = NoErrors
    /\ pendBbdrop = TRUE
    /\ pendForkoffset = TRUE
    /\ shown = Render(pdm, Watch(mounted, form), errors)
    /\ calc = NoCall

\* the render of the version whose bbdrop effect depends on cslength alone
Rerender_cslengthOnly(pb, pf) ==
    LET w == Watch(mounted, form)
        nw == Watch(TRUE, form')
    IN  /\ mounted' = TRUE
        /\ shown' = Render(pdm', nw, errors')
        /\ pendBbdrop' = (pb \/ nw["cslength"] # w["cslength"])
        /\ pendForkoffset' =
              (pf \/ nw["isac"] # w["isac"] \/ nw["forklength"] # w["forklength"])
        /\ calc' = calc

\* A render of <Calculator> with the new state: the inputs are registered, the
\* results are recomputed, and an effect is due when one of its dependencies
\* (what watch returned) differs from the previous render.  pb and pf tell
\* whether the effects that were due before stay due.
Rerender(pb, pf) ==
    LET w == Watch(mounted, form)
        nw == Watch(TRUE, form')
    IN  /\ mounted' = TRUE
        /\ shown' = Render(pdm', nw, errors')
        /\ pendBbdrop' =
              (pb \/ nw["cslength"] # w["cslength"] \/ nw["frontcenter"] # w["frontcenter"])
        /\ pendForkoffset' =
              (pf \/ nw["isac"] # w["isac"] \/ nw["forklength"] # w["forklength"])
        /\ calc' = calc

\* The effects run after the render is committed and the validation they
\* start resolves in promise jobs: both end before the browser delivers the
\* user's next event, so the user acts on a form with no effect due.
Settled == ~pendBbdrop /\ ~pendForkoffset

\* the change handler of a text input (mode "all"): the resolver validates the
\* form and the error of the changed field alone is updated, then a render
Edit(k, t) ==
    /\ Settled
    /\ k \in Visible(pdm) \ {"isac"}
    /\ t \in Typed(k)
    /\ t # form[k]
    /\ form' = [form EXCEPT ![k] = t]
    /\ errors' = [errors EXCEPT ![k] = ~SchemaValid(k, form')]
    /\ pdm' = pdm
    /\ Rerender(pendBbdrop, pendForkoffset)

\* the blur handler of a text input (mode "all"): the field is validated again
Blur(k) ==
    /\ Settled
    /\ k \in Visible(pdm) \ {"isac"}
    /\ errors[k] # ~SchemaValid(k, form)
    /\ errors' = [errors EXCEPT ![k] = ~SchemaValid(k, form)]
    /\ UNCHANGED <<form, pdm>>
    /\ Rerender(pendBbdrop, pendForkoffset)

\* the change handler of the isac checkbox; isac has no test that can fail
ToggleIsac ==
    /\ Settled
    /\ "isac" \in Visible(pdm)
    /\ form' = [form EXCEPT !["isac"] = Bool(~Truthy(form["isac"]))]
    /\ UNCHANGED <<errors, pdm>>
    /\ Rerender(pendBbdrop, pendForkoffset)

\* useEffect(() => { trigger("bbdrop") }, [trigger, cslength, frontcenter])
TriggerBbdrop ==
    /\ pendBbdrop
    /\ errors' = [errors EXCEPT !["bbdrop"] = ~SchemaValid("bbdrop", form)]
    /\ UNCHANGED <<form, pdm>>
    /\ Rerender(FALSE, pendForkoffset)

\* useEffect(() => { trigger("forkoffset") }, [trigger, isac, forklength])
TriggerForkoffset ==
    /\ pendForkoffset
    /\ errors' = [errors EXCEPT !["forkoffset"] = ~SchemaValid("forkoffset", form)]
    /\ UNCHANGED <<form, pdm>>
    /\ Rerender(pendBbdrop, FALSE)

\* onChange of the mode <select>
setPdmAndClearFields(value) ==
    /\ Settled
    /\ value \in Modes
    /\ value # pdm
    /\ pdm' = value
    /\ form' = ClearedForm(form, value)
    /\ UNCHANGED errors
    /\ Rerender(pendBbdrop, pendForkoffset)

\* onSelect of <SelectExample>: setPdmAndClearFields(PDM_STACK_REACH), then
\* setValue(k, fex[k]) for the seven keys; setValue does not validate
SelectExample(i) ==
    /\ Settled
    /\ i \in 1..NumExamples
    /\ pdm' = PDM_STACK_REACH
    /\ form' = LET fex == getFrameExampleVariables(i)
                   cleared == ClearedForm(form, PDM_STACK_REACH)
               IN  [k \in AllFields |-> IF k \in ExampleKeys THEN fex[k] ELSE cleared[k]]
    /\ UNCHANGED errors
    /\ Rerender(pendBbdrop, pendForkoffset)

Next ==
    \/ \E k \in NumFields : \E t \in Typed(k) : Edit(k, t)
    \/ \E k \in NumFields : Blur(k)
    \/ ToggleIsac
    \/ TriggerBbdrop
    \/ TriggerForkoffset
    \/ \E m \in Modes : setPdmAndClearFields(m)
    \/ \E i \in 1..NumExamples : SelectExample(i)

Spec == Init /\ [][Next]_vars

\* the step in which the effect that is due runs (TriggerBbdrop and
\* TriggerForkoffset are the only steps of Next that do it)
RunBbdropEffect == pendBbdrop /\ pendBbdrop' = FALSE
RunForkoffsetEffect == pendForkoffset /\ pendForkoffset' = FALSE

\* An effect that is due runs: React runs the effects of a committed render
\* before it handles the next event, and trigger() resolves.
LiveSpec ==
    Spec /\ WF_pendBbdrop(RunBbdropEffect) /\ WF_pendForkoffset(RunForkoffsetEffect)

TypeOK ==
    /\ pdm \in Modes
    /\ mounted \in BOOLEAN
    /\ DOMAIN form = AllFields
    /\ errors \in [NumFields -> BOOLEAN]
    /\ shown = Render(pdm, Watch(mounted, form), errors)

----------------------------------------------------------------------------
(* Evaluation of one input snapshot: the form holds a snapshot whose error *)
(* flags are those of the schema, and the first render after registration  *)
(* shows its five results.                                                 *)

EvalModes == {PDM_STACK_REACH}

\* snapshot texts around the limits of the fixture (head tube at 90 degrees,
\* where HTX = reach, HTY = stack - htlength, DAX = sqrt(cs^2 - bb^2), DAY = bbdrop),
\* and the frame hta = 72, stack = 560, reach = 385
EvalTyped(k) ==
    CASE k = "hta" -> {Txt(90 * Unit), Txt(72 * Unit)}
      [] k = "sta" -> {EmptyStr, BlankStr, Txt(80 * Unit - 1), Txt(80 * Unit),
                       Txt(100 * Unit), Txt(100 * Unit + 1)}
      [] k = "htlength" -> {Txt(60 * Unit), Txt(65 * Unit)}
      [] k = "stack" -> {Txt(60 * Unit - 1), Txt(60 * Unit), Txt(440 * Unit),
                         Txt(440 * Unit + 1), Txt(450 * Unit), Txt(460 * Unit),
                         Txt(460 * Unit + 1), Txt(465 * Unit), Txt(560 * Unit)}
      [] k = "reach" -> {EmptyStr, Txt(80 * Unit - 1), Txt(80 * Unit), Txt(385 * Unit),
                         Txt(700 * Unit), Txt(700 * Unit + 1)}
      [] k = "cslength" -> {Txt(50 * Unit - 1), Txt(50 * Unit), Txt(600 * Unit),
                            Txt(600 * Unit + 1)}
      [] k = "bbdrop" -> {Txt(-1), Txt(0), Txt(250 * Unit), Txt(250 * Unit + 1)}
      [] k = "isac" -> {Bool(FALSE)}
      [] OTHER -> {EmptyStr}

EvalInit ==
    /\ pdm \in EvalModes
    /\ mounted = FALSE
    /\ \E hta \in EvalTyped("hta"),
          sta \in EvalTyped("sta"), htlength \in EvalTyped("htlength"),
          stack \in EvalTyped("stack"), reach \in EvalTyped("reach"),
          cslength \in EvalTyped("cslength"), bbdrop \in EvalTyped("bbdrop") :
            form = [k \in AllFields |->
                      CASE k = "hta" -> hta
                        [] k = "sta" -> sta
                        [] k = "htlength" -> htlength
                        [] k = "stack" -> stack
                        [] k = "reach" -> reach
                        [] k = "cslength" -> cslength
                        [] k = "bbdrop" -> bbdrop
                        [] OTHER -> CHOOSE t \in EvalTyped(k) : TRUE]
    /\ errors = [k \in NumFields |-> ~SchemaValid(k, form)]
    /\ pendBbdrop = FALSE
    /\ pendForkoffset = FALSE
    /\ shown = Render(pdm, Watch(mounted, form), errors)
    /\ calc = NoCall

\* the render that follows the registration of the inputs
EvalRender ==
    /\ ~mounted
    /\ mounted' = TRUE
    /\ shown' = Render(pdm, Watch(TRUE, form), errors)
    /\ UNCHANGED <<pdm, form, errors, pendBbdrop, pendForkoffset, calc>>

EvalNext == EvalRender

EvalSpec == EvalInit /\ [][EvalNext]_vars

----------------------------------------------------------------------------
(* The formulas applied on their own: the form stays as mounted, and each    *)
(* step applies one formula to arguments drawn from a small set.             *)

FnForkLengths == {Num(5 * Unit), Num(13 * Unit), Num(100 * Unit)}
FnForkOffsets ==
    {Num(0), Num(3 * Unit), Num(-3 * Unit), Num(5 * Unit), Num(45 * Unit),
     Num(100 * Unit + 1)}
FnFlags == {Bool(TRUE), Bool(FALSE), Undefined}

FnInit ==
    /\ pdm = PDM_STACK_REACH
    /\ mounted = FALSE
    /\ form = [k \in AllFields |-> IF k = "isac" THEN Bool(FALSE) ELSE EmptyStr]
    /\ errors = NoErrors
    /\ pendBbdrop = FALSE
    /\ pendForkoffset = FALSE
    /\ shown = Render(pdm, Watch(mounted, form), errors)
    /\ calc = NoCall

ApplyCorrectForkLength(forklength, forkoffset, isac) ==
    /\ calc' = [fn |-> "correctForkLength",
                args |-> <<forklength, forkoffset, isac>>,
                result |-> correctForkLength(forklength, forkoffset, isac)]
    /\ UNCHANGED <<pdm, mounted, form, errors, pendBbdrop, pendForkoffset, shown>>

\* raw results around the limits, in 1/(Unit*TrigScale)
FnRaws(o) ==
    IF o = "htx"
    THEN {Num(79994000), Num(79996000), Num(385000000), Num(700004000), Num(700006000)}
    ELSE {Num(-4000), Num(-6000), Num(379996000), Num(380000000), Num(380004000),
          Num(400004000), Num(400006000)}
\* head tube lengths with and without a third decimal
FnHtLengths ==
    {Txt(60 * Unit), TxtFine(60004000), TxtFine(59996000), TxtFine(80004000), EmptyStr}

\* <Result> of HTX or HTY for a calculate that returns raw
ApplyResult(o, raw, htlength) ==
    /\ calc' = [fn |-> "Result",
                args |-> <<o, raw, htlength>>,
                result |-> Result(NoErrors, [hta |-> Num(90 * Unit)], raw,
                                  IF o = "hty" THEN HtyCheck(htlength)
                                  ELSE RangeCheck(MIN_HTX, MAX_HTX))]
    /\ UNCHANGED <<pdm, mounted, form, errors, pendBbdrop, pendForkoffset, shown>>

\* valid chainstay inputs: hta in (0, 180), cslength > 0, |bbdrop| <= cslength
FnHtas == {Txt(72 * Unit), Txt(90 * Unit), Txt(30 * Unit), Txt(120 * Unit), Txt(1)}
FnCsLengths == {Txt(420 * Unit), Txt(100 * Unit), Txt(50 * Unit)}
FnBbDrops == {Txt(0), Txt(70 * Unit), Txt(-30 * Unit), Txt(50 * Unit), Txt(-50 * Unit)}

\* the DAX and DAY <Result>s of a form that holds hta, cslength and bbdrop
ApplyDaxDay(hta, cslength, bbdrop) ==
    /\ Abs(bbdrop.num) <= cslength.num
    /\ LET w == [k \in AllFields |->
                    CASE k = "hta" -> hta
                      [] k = "cslength" -> cslength
                      [] k = "bbdrop" -> bbdrop
                      [] k = "isac" -> Bool(FALSE)
                      [] OTHER -> EmptyStr]
       IN  calc' = [fn |-> "DaxDay",
                    args |-> <<hta, cslength, bbdrop>>,
                    result |-> <<DaxResult(w, NoErrors), DayResult(w, NoErrors)>>]
    /\ UNCHANGED <<pdm, mounted, form, errors, pendBbdrop, pendForkoffset, shown>>

\* the values object of the HT-TT junction mode
FnEttHtas == {Num(72 * Unit), Num(90 * Unit)}
FnEttStas == {Num(73 * Unit), Num(90 * Unit)}
FnEttHtLengths == {Num(60 * Unit), Num(110 * Unit), Num(120 * Unit)}
FnEttOffsets == {Num(0), Num(10 * Unit)}
FnEttForkOffsets == {Num(0), Num(45 * Unit), Num(400 * Unit)}
FnEttLhshs == {Num(0), Num(10 * Unit)}
FnEttBbDrops == {Num(0), Num(70 * Unit)}
EttValues(a, s, l, off, ac, fo, sh, bb) ==
    [hta |-> a, htlength |-> l, forklength |-> Num(390 * Unit), forkoffset |-> fo,
     isac |-> ac, sta |-> s, bbdrop |-> bb, etttt |-> Num(550 * Unit),
     htttoffset |-> off, lhsh |-> sh]

\* the values object of ETT Taiwanese mode for the frame of HT-TT junction
\* values v measured at the junction: htlength less htttoffset, and etttt as
\* etttaiwanese
ShiftedAlongHeadTube(v) ==
    [hta |-> v["hta"],
     htlength |-> Num(v["htlength"].num - v["htttoffset"].num),
     forklength |-> v["forklength"], forkoffset |-> v["forkoffset"],
     isac |-> v["isac"], sta |-> v["sta"], bbdrop |-> v["bbdrop"],
     lhsh |-> v["lhsh"], etttaiwanese |-> v["etttt"]]

\* the calculate closures of HTX and HTY: those of the HT-TT junction mode
\* applied to values, and those of ETT Taiwanese mode applied to the shifted
\* values.  The closures keep no state, so they are applied to a fresh form only.
ApplyEttCalculate(values) ==
    /\ calc.fn = "none"
    /\ LET shifted == ShiftedAlongHeadTube(values)
       IN  calc' = [fn |-> "EttCalculate",
                    args |-> <<values, shifted>>,
                    result |-> <<CalcHtx(PDM_ETT_TT, values), CalcHty(PDM_ETT_TT, values),
                                 CalcHtx(PDM_ETT_TAIWANESE, shifted),
                                 CalcHty(PDM_ETT_TAIWANESE, shifted)>>]
    /\ UNCHANGED <<pdm, mounted, form, errors, pendBbdrop, pendForkoffset, shown>>

\* what watch returns for a registered form of mode m whose inputs are all
\* filled, but for bbdrop, forkoffset and lhsh, which hold zero, another text
\* or nothing, and for isac (undefined stands for a checkbox not yet registered);
\* a negative cslength is a text that no bbdrop is within
FnZeroTexts(k) ==
    {Txt(0), EmptyStr} \cup
    CASE k = "bbdrop" -> {Txt(70 * Unit)}
      [] k = "forkoffset" -> {Txt(45 * Unit)}
      [] k = "lhsh" -> {Txt(10 * Unit)}
FnZeroCsLengths == {Txt(420 * Unit), Txt(-5 * Unit)}
FnWatched(m, cslength, bbdrop, forkoffset, lhsh, isac) ==
    [k \in AllFields |->
        CASE k = "isac" -> (IF k \in Visible(m) THEN isac ELSE Bool(FALSE))
          [] k \notin Visible(m) -> EmptyStr
          [] k = "bbdrop" -> bbdrop
          [] k = "forkoffset" -> forkoffset
          [] k = "lhsh" -> lhsh
          [] k \in {"hta", "sta"} -> Txt(90 * Unit)
          [] k = "htlength" -> Txt(60 * Unit)
          [] k = "stack" -> Txt(440 * Unit)
          [] k = "reach" -> Txt(80 * Unit)
          [] k = "cslength" -> cslength
          [] k = "frontcenter" -> Txt(250 * Unit)
          [] k \in {"etttaiwanese", "etttt"} -> Txt(500 * Unit)
          [] k = "htttoffset" -> Txt(10 * Unit)
          [] k = "forklength" -> Txt(390 * Unit)]

\* the five <Result>s of a render of mode m over w, with the flags of the schema
ApplyRender(m, w) ==
    /\ calc.fn = "none"
    /\ calc' = [fn |-> "Render",
                args |-> <<m, w>>,
                result |-> Render(m, w, [k \in NumFields |-> ~SchemaValid(k, w)])]
    /\ UNCHANGED <<pdm, mounted, form, errors, pendBbdrop, pendForkoffset, shown>>

FnNext ==
    \/ \E hta \in FnHtas, cslength \in FnCsLengths, bbdrop \in FnBbDrops :
            ApplyDaxDay(hta, cslength, bbdrop)
    \/ \E o \in {"htx", "hty"} : \E raw \in FnRaws(o) : \E htlength \in FnHtLengths :
            ApplyResult(o, raw, htlength)
    \/ \E forklength \in FnForkLengths, forkoffset \in FnForkOffsets, isac \in FnFlags :
            ApplyCorrectForkLength(forklength, forkoffset, isac)
    \/ \E hta \in FnEttHtas, sta \in FnEttStas, htlength \in FnEttHtLengths,
          off \in FnEttOffsets, isac \in {Bool(TRUE), Bool(FALSE)},
          forkoffset \in FnEttForkOffsets, lhsh \in FnEttLhshs, bbdrop \in FnEttBbDrops :
            ApplyEttCalculate(EttValues(hta, sta, htlength, off, isac, forkoffset,
                                        lhsh, bbdrop))
    \/ \E m \in Modes :
       \E cslength \in FnZeroCsLengths, bbdrop \in FnZeroTexts("bbdrop"),
          forkoffset \in FnZeroTexts("forkoffset"), lhsh \in FnZeroTexts("lhsh"),
          isac \in FnFlags :
            ApplyRender(m, FnWatched(m, cslength, bbdrop, forkoffset, lhsh, isac))

FnSpec == FnInit /\ [][FnNext]_vars

----------------------------------------------------------------------------
(* Properties *)

\* what watch returns in the current render
W == Watch(mounted, form)

\* the requirement set of output o in the current render: the keys of its values
Req(o) ==
    CASE o = "staHta" -> StaHtaFields
      [] o = "htx" -> HtxFields(pdm)
      [] o = "hty" -> HtyFields(pdm, W["isac"])
      [] o \in {"dax", "day"} -> DaFields

Incomplete(o) == shown[o].status = "incomplete"

RangeOutputs == {"staHta", "htx", "dax", "day"}
RangeMin(o) ==
    CASE o = "staHta" -> MIN_ST_HT_ANGLE [] o = "htx" -> MIN_HTX
      [] o = "dax" -> MIN_DAX [] o = "day" -> MIN_DAY
RangeMax(o) ==
    CASE o = "staHta" -> MAX_ST_HT_ANGLE [] o = "htx" -> MAX_HTX
      [] o = "dax" -> MAX_DAX [] o = "day" -> MAX_DAY

\* C1: a computed ST-HT angle, HTX, DAX or DAY that is a number v is shown ok
\* exactly when min <= v <= max (both limits inclusive), and out of range
\* otherwise.  (A result that is not a number is the subject of C11.)
C1_RangeInclusive ==
    \A o \in RangeOutputs :
        (~Incomplete(o) /\ IsNum(shown[o].value)) =>
            /\ shown[o].status \in {"ok", "outOfRange"}
            /\ shown[o].status = "ok" <=>
                  /\ RangeMin(o) * Unit <= shown[o].value.num
                  /\ shown[o].value.num <= RangeMax(o) * Unit

\* an HTX of exactly 700 and a DAY of exactly 250 are ok, an ST-HT angle of 10.01 is not
C1_Witness ==
    /\ shown["htx"].value = Num(MAX_HTX * Unit) /\ shown["htx"].status = "ok"
    /\ shown["day"].value = Num(MAX_DAY * Unit) /\ shown["day"].status = "ok"
    /\ shown["staHta"].value = Num(MAX_ST_HT_ANGLE * Unit + 1)
    /\ shown["staHta"].status = "outOfRange"

\* C2: HTY outside [0, 400] is out of range whatever htlength is; otherwise,
\* with htyTop = HTY + htlength, it is ok up to 440, "could possibly exceed"
\* above 440 up to 460, and "will exceed" above 460.
C2_HtyTwoStage ==
    LET r == shown["hty"]
        hl == parseFloat(W["htlength"])
    IN  (~Incomplete("hty") /\ IsNum(r.value)) =>
            IF r.value.num < MIN_HTY * Unit \/ r.value.num > MAX_HTY * Unit
            THEN r.status = "outOfRange"
            ELSE IsNum(hl) =>
                    LET htyTop == r.value.num + hl.num
                    IN  /\ htyTop <= MAX_HTY_TOP_SMALLEST * Unit => r.status = "ok"
                        /\ (htyTop > MAX_HTY_TOP_SMALLEST * Unit
                            /\ htyTop <= MAX_HTY_TOP_LARGEST * Unit) =>
                                (r.status = "conditionallyOutOfRange" /\ r.message = "possible")
                        /\ htyTop > MAX_HTY_TOP_LARGEST * Unit =>
                                (r.status = "conditionallyOutOfRange" /\ r.message = "definite")

\* hty = 380 with htlength = 60 (top exactly 440) is ok
C2_Witness ==
    /\ shown["hty"].value = Num(380 * Unit)
    /\ W["htlength"] = Txt(60 * Unit)
    /\ shown["hty"].status = "ok"

\* C3: an output is incomplete exactly when a field of its requirement set is
\* undefined, null, the empty string or flagged by validation; then no value
\* and no verdict is produced, and otherwise a value and one verdict are.
C3_IncompleteIff ==
    \A o \in Outputs :
        /\ Incomplete(o) <=>
              \E k \in Req(o) \ {"isac"} :
                  W[k].kind \in {"undefined", "null", "empty"} \/ errors[k]
        /\ Incomplete(o) => (shown[o].value = Undefined /\ shown[o].message = "")
        /\ ~Incomplete(o) =>
              /\ shown[o].status \in {"ok", "outOfRange", "conditionallyOutOfRange"}
              /\ shown[o].value.kind \in {"num", "nan"}

\* DAX waits on a bbdrop that is typed but flagged, while ST-HT angle is computed
C3_Witness ==
    /\ W["bbdrop"].kind = "text" /\ errors["bbdrop"]
    /\ W["hta"].kind = "text" /\ ~errors["hta"]
    /\ W["cslength"].kind = "text" /\ ~errors["cslength"]
    /\ Incomplete("dax")
    /\ shown["staHta"].status = "ok"

\* the field is absent, as <Result> sees it
Absent(k) == W[k].kind \in {"undefined", "null", "empty"}

\* the text of the field breaks the rule of the field itself
OwnRuleBroken(k) ==
    \/ W[k].kind = "junk"
    \/ /\ W[k].kind = "text"
       /\ CASE k \in {"hta", "sta"} -> ~(0 < W[k].num /\ W[k].num < 180 * Unit)
            [] k = "htlength" -> W[k].num < MIN_HT_LENGTH_LARGEST * Unit
            [] k \in {"bbdrop", "forkoffset"} -> FALSE
            [] k = "lhsh" -> W[k].num < 0
            [] OTHER -> W[k].num <= 0

\* absent, invalid by its own rule, or flagged by validation
Missing(k) == Absent(k) \/ OwnRuleBroken(k) \/ errors[k]

\* what output o depends on in the current render: its requirement set's values and flags
ReqSnapshot(o) ==
    [k \in Req(o) |-> <<W[k], IF k \in NumFields THEN errors[k] ELSE FALSE>>]

\* a step in which another output becomes or stops being incomplete, while the
\* mode and the own inputs of a computed output o stay the same, leaves o as it was
C4_Step ==
    \A o \in Outputs :
        ( /\ pdm' = pdm
          /\ ReqSnapshot(o)' = ReqSnapshot(o)
          /\ ~Incomplete(o)
          /\ \E p \in Outputs \ {o} :
                /\ shown'[p].status # shown[p].status
                /\ "incomplete" \in {shown[p].status, shown'[p].status} )
        => shown'[o] = shown[o]

\* without reach, Stack/Reach mode still computes ST-HT angle, DAX and DAY
C4_Example ==
    ( /\ pdm = PDM_STACK_REACH
      /\ Absent("reach")
      /\ \A k \in {"hta", "sta", "htlength", "stack", "cslength", "bbdrop"} : ~Missing(k) )
    => /\ Incomplete("htx") /\ Incomplete("hty")
       /\ ~Incomplete("staHta") /\ ~Incomplete("dax") /\ ~Incomplete("day")

\* C4: the five outputs are evaluated independently: an output whose own
\* required inputs are present and valid keeps its status and value when
\* another output becomes incomplete (or complete); without reach, Stack/Reach
\* mode shows HTX and HTY incomplete and still computes the other three.
C4_Independent == [][C4_Step]_vars /\ []C4_Example

C4_Witness ==
    /\ pdm = PDM_STACK_REACH
    /\ Absent("reach")
    /\ \A k \in {"hta", "sta", "htlength", "stack", "cslength", "bbdrop"} : ~Missing(k)
    /\ Incomplete("htx") /\ Incomplete("hty")
    /\ shown["staHta"].status = "ok" /\ ~Incomplete("dax") /\ ~Incomplete("day")

\* C5: in every mode, when hta is absent, not a number in the open interval
\* (0, 180), or flagged, all five outputs are incomplete.
C5_HtaRequired ==
    ( \/ W["hta"].kind # "text"
      \/ W["hta"].num <= 0
      \/ W["hta"].num >= 180 * Unit
      \/ errors["hta"] )
    => \A o \in Outputs : Incomplete(o)

\* hta = 200 with every other Stack/Reach input valid: nothing is computed
C5_Witness ==
    /\ W["hta"] = Txt(200 * Unit)
    /\ \A k \in {"sta", "htlength", "stack", "reach", "cslength", "bbdrop"} : ~Missing(k)
    /\ \A o \in Outputs : Incomplete(o)

EttTaiwaneseRequired ==
    {"hta", "sta", "htlength", "etttaiwanese", "forklength", "forkoffset", "lhsh", "bbdrop"}
EttTtRequired ==
    {"hta", "sta", "htlength", "etttt", "htttoffset", "forklength", "forkoffset",
     "lhsh", "bbdrop"}

OutputResult(o, m, w, e) ==
    CASE o = "staHta" -> StaHtaResult(w, e)
      [] o = "htx" -> HtxResult(m, w, e)
      [] o = "hty" -> HtyResult(m, w, e)
      [] o = "dax" -> DaxResult(w, e)
      [] o = "day" -> DayResult(w, e)

\* C8: a field outside an output's requirement set is ignored: whatever text
\* and flag it holds, the output's value and verdict are the same.
C8_OthersIgnored ==
    mounted =>
        \A o \in Outputs : \A k \in NumFields \ Req(o) :
            \A t \in Typed(k) : \A e \in BOOLEAN :
                OutputResult(o, pdm, [W EXCEPT ![k] = t], [errors EXCEPT ![k] = e])
                    = shown[o]

\* C9: with isac checked and |forkoffset| > forklength, the outputs that use
\* the corrected fork length are never computed: HTY in Front Center mode, HTX
\* and HTY in the two ETT modes are incomplete.
C9_NoNegativeRadicand ==
    ( /\ Truthy(W["isac"])
      /\ W["forkoffset"].kind = "text"
      /\ W["forklength"].kind = "text"
      /\ Abs(W["forkoffset"].num) > W["forklength"].num )
    => /\ pdm = PDM_FRONT_CENTER => Incomplete("hty")
       /\ pdm \in {PDM_ETT_TAIWANESE, PDM_ETT_TT} => (Incomplete("htx") /\ Incomplete("hty"))

BbdropWithin(k) ==
    (W["bbdrop"].kind = "text" /\ W[k].kind = "text")
        => Abs(W["bbdrop"].num) <= W[k].num

\* validation accepts bbdrop only within cslength and, in Front Center mode, frontcenter
C10_Accepted ==
    (mounted /\ SchemaValid("bbdrop", form)) =>
        /\ BbdropWithin("cslength")
        /\ pdm = PDM_FRONT_CENTER => BbdropWithin("frontcenter")

\* C10: bbdrop passes validation only if |bbdrop| <= cslength and, in Front
\* Center mode, |bbdrop| <= frontcenter; so whenever DAX or DAY is computed
\* |bbdrop| <= cslength, and whenever Front Center HTX or HTY is computed
\* |bbdrop| <= frontcenter.
C10_BbdropBounded ==
    /\ C10_Accepted
    /\ (~Incomplete("dax") \/ ~Incomplete("day")) => BbdropWithin("cslength")
    /\ (pdm = PDM_FRONT_CENTER /\ (~Incomplete("htx") \/ ~Incomplete("hty")))
          => BbdropWithin("frontcenter")

\* C11: a formula result that is NaN or undefined is reported as a failure: no
\* output whose result is not a number is shown with the verdict ok.
C11_NoNaNOk ==
    \A o \in Outputs :
        (~Incomplete(o) /\ ~IsNum(shown[o].value)) => shown[o].status # "ok"

\* C12: correctForkLength returns forklength unchanged when isac is false,
\* whatever forkoffset is, and sqrt(forklength^2 - forkoffset^2) (to the
\* hundredth; NaN for a negative radicand) when isac is true; so (L, 0, true)
\* and (L, 0, false) give L, and (5, 3, true) gives 4.
C12_ForkLengthCorrection ==
    calc.fn = "correctForkLength" =>
        LET fl == calc.args[1].num
            fo == calc.args[2].num
            isac == calc.args[3]
            r == calc.result
            d == fl * fl - fo * fo
        IN  /\ ~Truthy(isac) => r = Num(fl)
            /\ Truthy(isac) =>
                  IF d < 0 THEN r = NaN
                  ELSE /\ IsNum(r) /\ r.num >= 0
                       /\ (r.num = 0 \/ (2 * r.num - 1) * (2 * r.num - 1) <= 4 * d)
                       /\ 4 * d < (2 * r.num + 1) * (2 * r.num + 1)
            /\ fo = 0 => r = Num(fl)
            /\ (fl = 5 * Unit /\ fo = 3 * Unit /\ Truthy(isac)) => r = Num(4 * Unit)

\* the 3-4-5 triangle
C12_Witness ==
    /\ calc.fn = "correctForkLength"
    /\ calc.args = <<Num(5 * Unit), Num(3 * Unit), Bool(TRUE)>>
    /\ calc.result = Num(4 * Unit)

\* C13: every verdict is taken from the result rounded to two decimals, not
\* from the raw result (raw HTX 700.004 is ok, 700.006 out of range), and the
\* head-tube top is the rounded HTY plus htlength with all its decimals.
C13_RoundedThenValidated ==
    calc.fn = "Result" =>
        LET o == calc.args[1]
            raw == calc.args[2].num
            hl == calc.args[3]
            r == calc.result
            v == r.value.num
        IN  /\ IsNum(r.value) /\ 2 * Abs(raw - v * TrigScale) <= TrigScale
            /\ o = "htx" =>
                  /\ r.status = "ok" <=> (MIN_HTX * Unit <= v /\ v <= MAX_HTX * Unit)
                  /\ raw = 700004000 => r.status = "ok"
                  /\ raw = 700006000 => r.status = "outOfRange"
            /\ o = "hty" =>
                  /\ r.status = "outOfRange" <=> (v < MIN_HTY * Unit \/ v > MAX_HTY * Unit)
                  /\ (r.status # "outOfRange" /\ hl.kind \in {"text", "fine"}) =>
                        LET top == v * TrigScale
                                   + (IF hl.kind = "fine" THEN hl.num ELSE hl.num * TrigScale)
                        IN  r.status = "ok" <=> top <= MAX_HTY_TOP_SMALLEST * Unit * TrigScale

\* a raw HTX of 700.004 is shown as 700 and ok
C13_Witness ==
    /\ calc.fn = "Result"
    /\ calc.args[1] = "htx" /\ calc.args[2] = Num(700004000)
    /\ calc.result.value = Num(MAX_HTX * Unit) /\ calc.result.status = "ok"

\* raw HTY 379.996 with htlength 60.004: the top is 380 + 60.004 > 440, not ok
C13_WitnessTop ==
    /\ calc.fn = "Result"
    /\ calc.args = <<"hty", Num(379996000), TxtFine(60004000)>>
    /\ calc.result.status = "conditionallyOutOfRange"

\* the sample frame of the spec, entered in Stack/Reach mode
SampleFrame ==
    /\ mounted /\ pdm = PDM_STACK_REACH
    /\ W["hta"] = Txt(72 * Unit) /\ W["stack"] = Txt(560 * Unit)
    /\ W["reach"] = Txt(385 * Unit)

\* C14 as claimed: with hta = 72, stack = 560, reach = 385 the HTX is 614.46
\* to within 0.01.
C14_Original ==
    SampleFrame =>
        /\ IsNum(shown["htx"].value)
        /\ Abs(shown["htx"].value.num - 61446) <= 1

\* C14 (amended): with hta = 72, stack = 560, reach = 385 the HTX computed by
\* sqrt(stack^2 + reach^2) * sin(180 - hta - atan(stack / reach)) is 539.21 to
\* within 0.01.
C14_HtxSample ==
    SampleFrame =>
        /\ IsNum(shown["htx"].value)
        /\ Abs(shown["htx"].value.num - 53921) <= 1

C14_Witness ==
    /\ SampleFrame
    /\ shown["htx"].status = "ok"
    /\ shown["htx"].value = Num(53921)

\* C15: for valid inputs DAX and DAY are the two projections of one chainstay
\* vector, so dax^2 + day^2 = cslength^2 up to the tolerance of the rounding
\* (here 0.03 on the length: the two roundings and the sine table); with the
\* head tube at 90 degrees DAY is bbdrop itself.
C15_ChainstayProjections ==
    calc.fn = "DaxDay" =>
        LET cs == calc.args[2].num
            dax == calc.result[1].value
            day == calc.result[2].value
            sq == dax.num * dax.num + day.num * day.num
        IN  /\ IsNum(dax) /\ IsNum(day)
            /\ (cs - 3) * (cs - 3) <= sq
            /\ sq <= (cs + 3) * (cs + 3)
            /\ calc.args[1] = Txt(90 * Unit) => day.num = calc.args[3].num

\* the sample of the spec: hta = 72, cslength = 420, bbdrop = 70
C15_Witness ==
    /\ calc.fn = "DaxDay"
    /\ calc.args = <<Txt(72 * Unit), Txt(420 * Unit), Txt(70 * Unit)>>
    /\ Abs(calc.result[1].value.num - 37223) <= 2
    /\ Abs(calc.result[2].value.num - 19455) <= 2

\* the form that holds preset i and nothing else
PresetForm(i) ==
    [k \in AllFields |->
        IF k \in ExampleKeys THEN getFrameExampleVariables(i)[k]
        ELSE IF k = "isac" THEN Bool(FALSE) ELSE EmptyStr]

\* what is shown after switching to Stack/Reach mode and typing preset i:
\* every typed field has been validated by its change handler
TypedShown(i) ==
    Render(PDM_STACK_REACH, Watch(TRUE, PresetForm(i)),
           [k \in NumFields |-> ~SchemaValid(k, PresetForm(i))])

\* selecting preset i leaves Stack/Reach mode, the seven values and nothing else
C16_PresetFields ==
    [][\A i \in 1..NumExamples :
          SelectExample(i) => (pdm' = PDM_STACK_REACH /\ form' = PresetForm(i))]_vars

\* C16: whenever the form holds preset i in Stack/Reach mode with every other
\* mode-dependent field empty (the state every selection of preset i leaves,
\* see C16_PresetFields) and the effects have run, the five outputs and
\* verdicts are those shown after switching to Stack/Reach mode and typing
\* the seven values.
C16_PresetAsTyped ==
    \A i \in 1..NumExamples :
        (mounted /\ Settled /\ pdm = PDM_STACK_REACH /\ form = PresetForm(i))
            => shown = TypedShown(i)

\* the ten mode-dependent fields
ModeDependent ==
    {"stack", "reach", "frontcenter", "etttaiwanese", "etttt", "htttoffset",
     "forklength", "isac", "forkoffset", "lhsh"}

\* the field list of mode m: the mode-dependent inputs the mode shows
FieldList(m) == Visible(m) \ BaseFields

\* a cleared field: the empty string, false for the checkbox
ClearedValue(k) == IF k = "isac" THEN Bool(FALSE) ELSE EmptyStr

C17_Step(m) ==
    /\ pdm' = m
    /\ \A k \in ModeDependent \ FieldList(m) : form'[k] = ClearedValue(k)
    /\ \A k \in FieldList(m) : form'[k] = form[k]
    /\ \A k \in BaseFields : form'[k] = form[k]
    /\ (pdm # PDM_STACK_REACH /\ m # PDM_STACK_REACH)
          => \A k \in {"forklength", "isac", "forkoffset", "lhsh"} : form'[k] = form[k]

\* C17: setPdmAndClearFields(M) sets the mode to M, clears exactly the
\* mode-dependent fields that are not in M's field list, leaves every field of
\* M's list as it was (fork and headset values survive a switch among the
\* three modes other than Stack/Reach) and never changes a base field.
C17_ClearsExactly ==
    [][\A m \in Modes : setPdmAndClearFields(m) => C17_Step(m)]_vars

\* after a switch from a fork mode to Stack/Reach: the fork fields are empty
\* (the flag of the emptied forkoffset is still the one it got in the fork
\* mode, its re-validation being due), stack and reach were never typed, and
\* the base field hta kept its text
C17_Witness ==
    /\ pdm = PDM_STACK_REACH
    /\ errors["forkoffset"] /\ pendForkoffset
    /\ \A k \in ModeDependent : form[k] = ClearedValue(k)
    /\ form["hta"] = Txt(90 * Unit)

\* C18: in every reachable state exactly one of the four modes is active and
\* every mode-dependent field that does not belong to the active mode is
\* empty (isac unchecked when the mode is Stack/Reach).
C18_OnlyActiveModeFields ==
    /\ pdm \in Modes
    /\ Cardinality({m \in Modes : m = pdm}) = 1
    /\ \A k \in ModeDependent \ FieldList(pdm) : form[k] = ClearedValue(k)

\* the ETT (HT-TT junction) mode with its own fields filled and isac checked,
\* entered by a mode switch, and a base field carrying a text
C18_Witness ==
    /\ pdm = PDM_ETT_TT
    /\ form["etttt"] # EmptyStr /\ form["htttoffset"] # EmptyStr
    /\ form["forklength"] # EmptyStr /\ Truthy(form["isac"])
    /\ form["cslength"] # EmptyStr
    /\ \A k \in {"stack", "reach", "frontcenter", "etttaiwanese"} : form[k] = EmptyStr

\* the fields whose rule reads other fields, and the fields each one reads
Dependent == {"bbdrop", "forkoffset"}
DependenciesOf(d) ==
    IF d = "bbdrop" THEN {"cslength", "frontcenter"} ELSE {"isac", "forklength"}
Due(d) == IF d = "bbdrop" THEN pendBbdrop ELSE pendForkoffset

\* the flag of d is the one the schema gives for the current values
Agrees(d) == errors[d] = ~SchemaValid(d, form)

\* an output that reads d is incomplete when d is invalid, and computed when d
\* is valid and present and nothing else of its requirement set is missing
OutputsFollow(d) ==
    \A o \in Outputs :
        d \in Req(o) =>
            /\ ~SchemaValid(d, form) => Incomplete(o)
            /\ ( /\ SchemaValid(d, form)
                 /\ \A k \in Req(o) \ {"isac"} : ~Absent(k)
                 /\ \A k \in Req(o) \ {"isac", d} : ~errors[k] )
               => ~Incomplete(o)

\* a render in which a dependency of d differs from the previous render makes
\* the re-validation of d due
C19_Retriggered ==
    \A d \in Dependent :
        (\E k \in DependenciesOf(d) : Watch(TRUE, form')[k] # W[k]) => Due(d)'

\* the step that runs the effect of d is the trigger of d, and it leaves the
\* flag of d agreeing with the current values and the outputs following it
C19_Settles ==
    \A d \in Dependent :
        (Due(d) /\ ~Due(d)') =>
            /\ IF d = "bbdrop" THEN TriggerBbdrop ELSE TriggerForkoffset
            /\ Agrees(d)' /\ OutputsFollow(d)'

\* C19: whenever a dependency of bbdrop (cslength, frontcenter) or of
\* forkoffset (isac, forklength) changes, the validation of the dependent
\* field is triggered again; it runs, and once it has run the flag of the
\* field agrees with the current values and the outputs that read the field
\* follow it.
C19_Revalidated ==
    /\ [][C19_Retriggered /\ C19_Settles]_vars
    /\ \A d \in Dependent : Due(d) ~> ~Due(d)

\* settled after frontcenter fell below a bbdrop that was valid: bbdrop is
\* flagged and Front Center HTX is incomplete
C19_Witness ==
    /\ mounted /\ Settled
    /\ pdm = PDM_FRONT_CENTER
    /\ form["bbdrop"] = Txt(70 * Unit)
    /\ form["frontcenter"] = Txt(50 * Unit)
    /\ form["cslength"] = Txt(420 * Unit)
    /\ form["hta"] = Txt(90 * Unit)
    /\ form["forkoffset"] # EmptyStr /\ ~errors["forkoffset"]
    /\ errors["bbdrop"]
    /\ Incomplete("htx")

\* C20: in every mode, an HTY that is a number and shown ok has a head tube
\* length that is present, unflagged and valid, and the rounded HTY plus that
\* length is at most 440.  (An HTY that is not a number is the subject of C11.)
C20_HtyOkTopChecked ==
    LET r == shown["hty"]
    IN  (r.status = "ok" /\ IsNum(r.value)) =>
            /\ W["htlength"].kind = "text"
            /\ ~errors["htlength"]
            /\ SchemaValid("htlength", form)
            /\ r.value.num + W["htlength"].num <= MAX_HTY_TOP_SMALLEST * Unit

\* C21: the HTX and HTY that the HT-TT junction mode computes are those ETT
\* Taiwanese mode computes for the same inputs with htlength replaced by
\* htlength - htttoffset and etttaiwanese set to etttt.
C21_ShiftedTaiwanese ==
    calc.fn = "EttCalculate" =>
        /\ calc.args[2]["htlength"].num
              = calc.args[1]["htlength"].num - calc.args[1]["htttoffset"].num
        /\ calc.args[2]["etttaiwanese"] = calc.args[1]["etttt"]
        /\ calc.result[1] = calc.result[3]
        /\ calc.result[2] = calc.result[4]

\* head and seat tube at 90 degrees, offset 10, straight fork 390, lhsh 10,
\* bbdrop 70: HTX is etttt = 550 and HTY is 390 + 10 + 70 = 470
C21_Witness ==
    /\ calc.fn = "EttCalculate"
    /\ calc.args[1] = EttValues(Num(90 * Unit), Num(90 * Unit), Num(120 * Unit),
                                Num(10 * Unit), Bool(FALSE), Num(0),
                                Num(10 * Unit), Num(70 * Unit))
    /\ calc.result[1] = Num(550 * Unit * TrigScale)
    /\ calc.result[2] = Num(470 * Unit * TrigScale)

ZeroFields == {"bbdrop", "forkoffset", "lhsh"}

\* the values object of output o in mode m over w
ValuesOf(o, m, w) ==
    valuesMap(w, CASE o = "staHta" -> StaHtaFields
                   [] o = "htx" -> HtxFields(m)
                   [] o = "hty" -> HtyFields(m, w["isac"])
                   [] o \in {"dax", "day"} -> DaFields)

\* C22: a field that holds zero (bbdrop, forkoffset, lhsh) counts as present:
\* it is in the values object as the number 0, holding zero never makes an
\* output wait on it (the output waits on it exactly when validation has
\* flagged it, as for any other number), and an output whose inputs are all
\* filled and unflagged is computed; no output waits on isac, whether it is
\* false, true or undefined.
C22_ZeroIsPresent ==
    calc.fn = "Render" =>
        LET m == calc.args[1]
            w == calc.args[2]
        IN  \A o \in Outputs :
                LET values == ValuesOf(o, m, w)
                    r == calc.result[o]
                IN  /\ "isac" \notin r.waitingOn
                    /\ \A k \in ZeroFields \cap DOMAIN values :
                          w[k] = Txt(0) =>
                              /\ values[k] = Num(0)
                              /\ k \in r.waitingOn <=> ~SchemaValid(k, w)
                    /\ (\A k \in DOMAIN values \ {"isac"} :
                            w[k] # EmptyStr /\ SchemaValid(k, w))
                          => (r.status # "incomplete" /\ IsNum(r.value))

\* Front Center mode with bbdrop, forkoffset and lhsh all zero and isac
\* unchecked: HTX is frontcenter = 250 and HTY is forklength = 390
C22_Witness ==
    /\ calc.fn = "Render"
    /\ calc.args[1] = PDM_FRONT_CENTER
    /\ \A k \in ZeroFields : calc.args[2][k] = Txt(0)
    /\ calc.args[2]["isac"] = Bool(FALSE)
    /\ calc.args[2]["cslength"] = Txt(420 * Unit)
    /\ calc.result["htx"].value = Num(250 * Unit)
    /\ calc.result["hty"].value = Num(390 * Unit)
    /\ \A o \in Outputs : calc.result[o].waitingOn = {}

====
